---- MODULE Spec2Model ----
(***************************************************************************)
(* Model of the three workflow scripts of bazel_rules_hdl:                 *)
(*   scan_submodule_tools.py   (Override Scanner)                          *)
(*   package_tools.py          (Archive Packager)                          *)
(*   generate_release_notes.py (Report Generator)                          *)
(*                                                                         *)
(* Texts are modelled at the level the scripts look at them: a manifest is *)
(* a sequence of override declarations, a declaration is the sequence of   *)
(* its `key = "value"` attributes in textual order, a file name is the     *)
(* tuple of the parts the f-string joins.                                  *)
(***************************************************************************)
EXTENDS Integers, Sequences, FiniteSets, TLC

\* ------------------------------------------------------------------ bounds
MaxDecls == 2      \* declarations in a manifest
MaxWith == 2       \* items of tools_info['with_submodules']
MaxWithout == 1    \* items of tools_info['without_submodules']
MaxPkgs == 2       \* records of a packages.json handed to the report

\* ------------------------------------------------------------------ values
ModuleNames == {"foo", "bar"}
Commits == {"abc123", "def456"}
GithubRemote == "https://github.com/acme/foo.git"
OtherRemote == "https://gitlab.com/acme/foo.git"
Remotes == {GithubRemote, OtherRemote}
TagName == "v1"
Repository == "acme/rules_hdl"

\* The six textual orders of the three attributes inside a declaration.
Orders ==
  { <<"module_name", "commit", "remote">>, <<"module_name", "remote", "commit">>,
    <<"commit", "module_name", "remote">>, <<"commit", "remote", "module_name">>,
    <<"remote", "module_name", "commit">>, <<"remote", "commit", "module_name">> }

ValueOf(key, m, c, r) ==
  IF key = "module_name" THEN m ELSE IF key = "commit" THEN c ELSE r

\* A git_override( ... ) block: its attributes in textual order.
Decl(order, m, c, r) ==
  [j \in 1..Len(order) |-> [key |-> order[j], val |-> ValueOf(order[j], m, c, r)]]

Declarations ==
  { Decl(o, m, c, r) : o \in Orders, m \in ModuleNames, c \in Commits, r \in Remotes }
  \cup { Decl(<<"module_name", "commit">>, m, "abc123", GithubRemote) : m \in {"foo"} }

SeqsUpTo(S, n) == UNION { [1..k -> S] : k \in 0..n }

\* ================================================================ Scanner
\* scan_submodule_tools.py

\* Line 19: git_override\s*\(\s*module_name\s*=\s*"([^"]+)"[^)]*commit\s*=\s*"([^"]+)"
\*          [^)]*remote\s*=\s*"([^"]+)"   with re.DOTALL.
\* module_name must be the first attribute after the parenthesis; [^)]* skips
\* any attributes (and line breaks) but cannot leave the block; both [^)]* are
\* greedy, so the last commit that still has a remote after it is taken, then
\* the last remote.
CommitIdx(d) ==
  { j \in 2..Len(d) : d[j].key = "commit" /\ \E k \in (j+1)..Len(d) : d[k].key = "remote" }

RemoteIdx(d, j) == { k \in (j+1)..Len(d) : d[k].key = "remote" }

SetMax(S) == CHOOSE x \in S : \A y \in S : y <= x

pattern_matches(d) ==
  /\ Len(d) >= 1
  /\ d[1].key = "module_name"
  /\ CommitIdx(d) # {}

pattern_groups(d) ==
  LET j == SetMax(CommitIdx(d))
      k == SetMax(RemoteIdx(d, j))
  IN [module_name |-> d[1].val, commit |-> d[j].val, remote |-> d[k].val]

\* Line 25: re.search(r'github\.com[:/]([^/]+)/([^/\.]+)', remote) on the
\* remotes of the model: group(2) stops at the first dot, so ".git" is cut.
repo_match(remote) ==
  IF remote = GithubRemote
    THEN [found |-> TRUE, owner |-> "acme", repo |-> "foo"]
    ELSE [found |-> FALSE, owner |-> "", repo |-> ""]

MkTool(g) ==
  [module_name |-> g.module_name, commit |-> g.commit, remote |-> g.remote,
   owner |-> repo_match(g.remote).owner, repo |-> repo_match(g.remote).repo]

RECURSIVE parse_from(_, _)
parse_from(content, n) ==
  IF n > Len(content) THEN <<>>
  ELSE LET d == content[n]
           rest == parse_from(content, n + 1)
       IN IF pattern_matches(d) /\ repo_match(pattern_groups(d).remote).found
            THEN <<MkTool(pattern_groups(d))>> \o rest
            ELSE rest

parse_git_overrides(content) == parse_from(content, 1)

\* curl -sf outcomes seen by subprocess.run(..., timeout=10)
ProbeOutcomes == {"exit0", "exit22", "neterr", "timeout"}
ProbeRaises == {"timeout"}

check_submodules_raises_present(o) == IF o \in ProbeRaises THEN TRUE ELSE o = "exit0"

\* Lines 39-50: returncode == 0, and False on any exception.
check_submodules(o) == IF o \in ProbeRaises THEN FALSE ELSE o = "exit0"

VARIABLES
  content,                  \* text of MODULE.bazel
  tools,                    \* scanner main: result of parse_git_overrides
  probe_log,                \* outcome of the probe of each tool, in order
  tools_with_submodules,    \* scanner main, line 55
  tools_without_submodules, \* scanner main, line 56
  scan_pc                   \* position in scanner main

scan_vars == <<content, tools, probe_log, tools_with_submodules,
               tools_without_submodules, scan_pc>>

VARIABLES
  tools_info,               \* [with_submodules, without_submodules] read at line 153
  pc,                       \* position in package_tools.main / package_tool
  i,                        \* index of the item the current loop is at
  temp_dirs,                \* per-module workspaces that exist under /tmp
  tarballs,                 \* output_dir: tarball name -> bytes
  sha_files,                \* output_dir: .sha256 name -> text
  packages,                 \* main, line 156
  no_submodule_integrities, \* main, line 165
  packages_json,            \* output_dir/packages.json
  integrities_json,         \* output_dir/no_submodule_integrities.json
  with_outcome,             \* how each package_tool call ended: "ok" (returned), "raised"
                            \* (a step of the try block raised, rm -rf exited zero),
                            \* "rm_failed", "mkdir_failed"
  without_outcome,          \* how each without_submodules item ended: "ok", "raised"
  pending,                  \* exception in flight (or "ok") when finally is entered
  integrity,                \* local of package_tool / archive bytes being hashed
  rm_ran,                   \* rm -rf was invoked on the workspace of the current call
  notes                     \* text printed by generate_release_notes.main

pack_vars == <<tools_info, pc, i, temp_dirs, tarballs, sha_files, packages,
               no_submodule_integrities, packages_json, integrities_json,
               with_outcome, without_outcome, pending, integrity, rm_ran>>

vars == <<scan_vars, pack_vars, notes>>

ScanIdle ==
  /\ content = <<>>
  /\ tools = <<>>
  /\ probe_log = <<>>
  /\ tools_with_submodules = <<>>
  /\ tools_without_submodules = <<>>
  /\ scan_pc = "off"

ScanInit ==
  /\ content \in SeqsUpTo(Declarations, MaxDecls)
  /\ tools = <<>>
  /\ probe_log = <<>>
  /\ tools_with_submodules = <<>>
  /\ tools_without_submodules = <<>>
  /\ scan_pc = "start"

\* Line 53
ScanParse ==
  /\ scan_pc = "start"
  /\ tools' = parse_git_overrides(content)
  /\ scan_pc' = "probe"
  /\ UNCHANGED <<content, probe_log, tools_with_submodules, tools_without_submodules>>
  /\ UNCHANGED <<pack_vars, notes>>

WithFlag(tool, flag) ==
  [module_name |-> tool.module_name, commit |-> tool.commit, remote |-> tool.remote,
   owner |-> tool.owner, repo |-> tool.repo, has_submodules |-> flag]

\* Lines 58-65: one iteration of the loop
ScanProbe ==
  /\ scan_pc = "probe"
  /\ Len(probe_log) < Len(tools)
  /\ \E o \in ProbeOutcomes :
       LET tool == tools[Len(probe_log) + 1]
           has_submodules == check_submodules(o)
       IN /\ probe_log' = Append(probe_log, o)
          /\ IF has_submodules
               THEN /\ tools_with_submodules' =
                         Append(tools_with_submodules, WithFlag(tool, TRUE))
                    /\ UNCHANGED tools_without_submodules
               ELSE /\ tools_without_submodules' =
                         Append(tools_without_submodules, WithFlag(tool, FALSE))
                    /\ UNCHANGED tools_with_submodules
  /\ UNCHANGED <<content, tools, scan_pc>>
  /\ UNCHANGED <<pack_vars, notes>>

\* Lines 67-72
ScanPrint ==
  /\ scan_pc = "probe"
  /\ Len(probe_log) = Len(tools)
  /\ scan_pc' = "done"
  /\ UNCHANGED <<content, tools, probe_log, tools_with_submodules,
                 tools_without_submodules>>
  /\ UNCHANGED <<pack_vars, notes>>

\* =============================================================== Packager
\* package_tools.py

\* Items the scanner can hand over: a DependencyRef with its classification.
PackTool(m, flag) ==
  [module_name |-> m, commit |-> "abc123", remote |-> GithubRemote,
   owner |-> "acme", repo |-> "foo", has_submodules |-> flag]

WithTools == { PackTool(m, TRUE) : m \in ModuleNames }
WithoutTools == { PackTool(m, FALSE) : m \in ModuleNames }

\* Byte contents of files, by identity.  tar of a fresh clone is not
\* reproducible (member mtimes are the checkout time), so two runs of
\* create_tarball may write different bytes; Truncated is what a tar that
\* dies after opening its output leaves behind.
Truncated == 0
TarBytes == {1, 2}
ArchiveBytes == {3}

\* Lines 56-65: sha256 over the file's bytes, base64, "sha256-" prefix.
\* SHA-256 is modelled as collision free: distinct bytes, distinct digest.
calculate_integrity(bytes) == [alg |-> "sha256-", b64 |-> <<"digest", bytes>>]

NoIntegrity == [alg |-> "", b64 |-> <<"none", 0>>]

\* Line 99: Path(f'/tmp/package_{module_name}')
TempDir(tool) == <<"/tmp/package_", tool.module_name>>

\* Line 114: f"{module_name}-{tag_name}.tar.gz"
TarballName(m, tag) == <<m, "-", tag, ".tar.gz">>

\* Line 122: f"{tarball_name}.sha256"
IntegrityFile(tarball_name) == tarball_name \o <<".sha256">>

\* Line 107: f"{repo}-{commit}"
TargetDirname(tool) == <<tool.repo, "-", tool.commit>>

\* Lines 127-133
PackageInfo(tool, tag, integ) ==
  [module_name |-> tool.module_name, tarball_name |-> TarballName(tool.module_name, tag),
   integrity |-> integ, commit |-> tool.commit, strip_prefix |-> TargetDirname(tool)]

\* Lines 177-183
IntegrityRecord(tool, integ) ==
  [module_name |-> tool.module_name, owner |-> tool.owner, repo |-> tool.repo,
   commit |-> tool.commit, integrity |-> integ]

RmRfKeeps(dirs, d) == dirs

\* Line 137: rm -rf <temp_dir> that exits zero
RmRf(dirs, d) == dirs \ {d}

AfterExceptionBreaks(idx, n) == n + 1

\* Lines 161-162 and 184-185: `except Exception` prints and the for loop goes on
AfterException(idx, n) == idx + 1

Absent == [exists |-> FALSE, data |-> <<>>]
Written(list) == [exists |-> TRUE, data |-> list]
EmptyFiles == [f \in {} |-> 0]
NoNotes == [with_list |-> <<>>, without_list |-> <<>>,
            with_blocks |-> <<>>, without_blocks |-> <<>>]

PackFresh ==
  /\ i = 1
  /\ temp_dirs = {}
  /\ tarballs = EmptyFiles
  /\ sha_files = EmptyFiles
  /\ packages = <<>>
  /\ no_submodule_integrities = <<>>
  /\ with_outcome = <<>>
  /\ without_outcome = <<>>
  /\ pending = "ok"
  /\ integrity = NoIntegrity
  /\ rm_ran = FALSE

\* Lines 140-156: arguments read, output_dir made, tools_info loaded
PackInit ==
  /\ ScanIdle
  /\ tools_info \in [with_submodules : SeqsUpTo(WithTools, MaxWith),
                     without_submodules : SeqsUpTo(WithoutTools, MaxWithout)]
  /\ pc = "with_loop"
  /\ PackFresh
  /\ packages_json = Absent
  /\ integrities_json = Absent
  /\ notes = NoNotes

With == tools_info.with_submodules
Without == tools_info.without_submodules

\* package_tool raises: the exception reaches main's handler (lines 161-162)
CallRaised(how) ==
  /\ with_outcome' = Append(with_outcome, how)
  /\ i' = AfterException(i, Len(With))
  /\ pc' = "with_loop"

\* Lines 157-159, 91-100: next item, package_tool is called, temp_dir.mkdir
PackageToolMkdir ==
  /\ pc = "with_loop"
  /\ i <= Len(With)
  /\ \/ /\ temp_dirs' = temp_dirs \cup {TempDir(With[i])}
        /\ pc' = "mkdir_done"
        /\ rm_ran' = FALSE
        /\ pending' = "ok"
        /\ integrity' = NoIntegrity
        /\ UNCHANGED <<i, with_outcome>>
     \/ /\ CallRaised("mkdir_failed")
        /\ UNCHANGED <<temp_dirs, rm_ran, pending, integrity>>
  /\ UNCHANGED <<tools_info, tarballs, sha_files, packages, no_submodule_integrities,
                 packages_json, integrities_json, without_outcome>>
  /\ UNCHANGED <<scan_vars, notes>>

\* Line 102: the try block is entered
EnterTry ==
  /\ pc = "mkdir_done"
  /\ pc' = "clone"
  /\ UNCHANGED <<tools_info, i, temp_dirs, tarballs, sha_files, packages,
                 no_submodule_integrities, packages_json, integrities_json,
                 with_outcome, without_outcome, pending, integrity, rm_ran>>
  /\ UNCHANGED <<scan_vars, notes>>

\* A step of the try block that touches only the workspace: it succeeds and
\* control moves on, or it raises and control goes to the finally block.
TryStep(from, to, tag) ==
  /\ pc = from
  /\ \/ /\ pc' = to
        /\ UNCHANGED pending
     \/ /\ pc' = "finally"
        /\ pending' = tag
  /\ UNCHANGED <<tools_info, i, temp_dirs, tarballs, sha_files, packages,
                 no_submodule_integrities, packages_json, integrities_json,
                 with_outcome, without_outcome, integrity, rm_ran>>
  /\ UNCHANGED <<scan_vars, notes>>

\* Lines 19-23
GitClone == TryStep("clone", "checkout", "clone")
\* Lines 26-30
GitCheckout == TryStep("checkout", "submodule", "checkout")
\* Lines 33-37
GitSubmoduleUpdate == TryStep("submodule", "rename", "submodule")
\* Lines 107-111
RenameCloneDir == TryStep("rename", "tar", "rename")

\* Lines 114-116, 47-54: tar -czf output_dir/tarball_name
CreateTarball ==
  /\ pc = "tar"
  /\ LET name == TarballName(With[i].module_name, TagName)
     IN \/ \E b \in TarBytes :
             /\ tarballs' = (name :> b) @@ tarballs
             /\ pc' = "hash"
             /\ UNCHANGED pending
        \/ /\ tarballs' = (name :> Truncated) @@ tarballs
           /\ pc' = "finally"
           /\ pending' = "tar"
        \/ /\ UNCHANGED tarballs
           /\ pc' = "finally"
           /\ pending' = "tar"
  /\ UNCHANGED <<tools_info, i, temp_dirs, sha_files, packages,
                 no_submodule_integrities, packages_json, integrities_json,
                 with_outcome, without_outcome, integrity, rm_ran>>
  /\ UNCHANGED <<scan_vars, notes>>

\* Line 119
CalculateIntegrity ==
  /\ pc = "hash"
  /\ \/ /\ integrity' =
             calculate_integrity(tarballs[TarballName(With[i].module_name, TagName)])
        /\ pc' = "write_sha"
        /\ UNCHANGED pending
     \/ /\ pc' = "finally"
        /\ pending' = "hash"
        /\ UNCHANGED integrity
  /\ UNCHANGED <<tools_info, i, temp_dirs, tarballs, sha_files, packages,
                 no_submodule_integrities, packages_json, integrities_json,
                 with_outcome, without_outcome, rm_ran>>
  /\ UNCHANGED <<scan_vars, notes>>

\* Lines 122-133: write_text, then the return statement hands over to finally
WriteIntegrityFile ==
  /\ pc = "write_sha"
  /\ LET name == IntegrityFile(TarballName(With[i].module_name, TagName))
     IN \/ /\ sha_files' = (name :> integrity) @@ sha_files
           /\ pending' = "ok"
        \/ /\ sha_files' = (name :> NoIntegrity) @@ sha_files
           /\ pending' = "write_sha"
        \/ /\ UNCHANGED sha_files
           /\ pending' = "write_sha"
  /\ pc' = "finally"
  /\ UNCHANGED <<tools_info, i, temp_dirs, tarballs, packages,
                 no_submodule_integrities, packages_json, integrities_json,
                 with_outcome, without_outcome, integrity, rm_ran>>
  /\ UNCHANGED <<scan_vars, notes>>

\* Lines 135-137, then main's lines 160-162: rm -rf with check=True; the call
\* returns its entry, re-raises the exception in flight, or raises rm's failure.
\* The locals of the call (pending, integrity) die with its frame.
Finally ==
  /\ pc = "finally"
  /\ rm_ran' = TRUE
  /\ \/ /\ temp_dirs' = RmRf(temp_dirs, TempDir(With[i]))
        /\ IF pending = "ok"
             THEN /\ packages' = Append(packages, PackageInfo(With[i], TagName, integrity))
                  /\ with_outcome' = Append(with_outcome, "ok")
                  /\ i' = i + 1
                  /\ pc' = "with_loop"
             ELSE /\ CallRaised("raised")
                  /\ UNCHANGED packages
     \/ /\ UNCHANGED <<temp_dirs, packages>>
        /\ CallRaised("rm_failed")
  /\ pending' = "ok"
  /\ integrity' = NoIntegrity
  /\ UNCHANGED <<tools_info, tarballs, sha_files, no_submodule_integrities,
                 packages_json, integrities_json, without_outcome>>
  /\ UNCHANGED <<scan_vars, notes>>

InTry == {"clone", "checkout", "submodule", "rename", "tar", "hash", "write_sha", "finally"}

\* KeyboardInterrupt (not an Exception): inside the try block the finally
\* clause runs rm -rf before the process dies; outside it nothing runs.
Interrupt ==
  /\ pc \in InTry \cup {"mkdir_done"}
  /\ IF pc \in InTry
       THEN /\ rm_ran' = TRUE
            /\ temp_dirs' = RmRf(temp_dirs, TempDir(With[i]))
       ELSE UNCHANGED <<rm_ran, temp_dirs>>
  /\ pc' = "killed"
  /\ UNCHANGED <<tools_info, i, tarballs, sha_files, packages,
                 no_submodule_integrities, packages_json, integrities_json,
                 with_outcome, without_outcome, pending, integrity>>
  /\ UNCHANGED <<scan_vars, notes>>

\* Lines 164-166: the first loop is over
WithLoopEnd ==
  /\ pc = "with_loop"
  /\ i > Len(With)
  /\ pc' = "without_loop"
  /\ i' = 1
  /\ UNCHANGED <<tools_info, temp_dirs, tarballs, sha_files, packages,
                 no_submodule_integrities, packages_json, integrities_json,
                 with_outcome, without_outcome, pending, integrity, rm_ran>>
  /\ UNCHANGED <<scan_vars, notes>>

ItemRaised ==
  /\ without_outcome' = Append(without_outcome, "raised")
  /\ i' = AfterException(i, Len(Without))
  /\ pc' = "without_loop"

\* Lines 166-174, 72-79: urlretrieve of the GitHub archive into a temp file
DownloadArchive ==
  /\ pc = "without_loop"
  /\ i <= Len(Without)
  /\ \/ \E b \in ArchiveBytes :
          /\ integrity' = calculate_integrity(b)
          /\ pc' = "hash_archive"
          /\ UNCHANGED <<i, without_outcome>>
     \/ /\ ItemRaised
        /\ UNCHANGED integrity
  /\ UNCHANGED <<tools_info, temp_dirs, tarballs, sha_files, packages,
                 no_submodule_integrities, packages_json, integrities_json,
                 with_outcome, pending, rm_ran>>
  /\ UNCHANGED <<scan_vars, notes>>

\* Lines 82-87, 175-185: the digest is returned and the record appended, or
\* hashing raises
HashArchive ==
  /\ pc = "hash_archive"
  /\ \/ /\ no_submodule_integrities' =
             Append(no_submodule_integrities, IntegrityRecord(Without[i], integrity))
        /\ without_outcome' = Append(without_outcome, "ok")
        /\ i' = i + 1
        /\ pc' = "without_loop"
     \/ /\ ItemRaised
        /\ UNCHANGED no_submodule_integrities
  /\ integrity' = NoIntegrity
  /\ UNCHANGED <<tools_info, temp_dirs, tarballs, sha_files, packages,
                 packages_json, integrities_json, with_outcome, pending, rm_ran>>
  /\ UNCHANGED <<scan_vars, notes>>

\* Lines 187-198
WriteManifests ==
  /\ pc = "without_loop"
  /\ i > Len(Without)
  /\ packages_json' = Written(packages)
  /\ integrities_json' = Written(no_submodule_integrities)
  /\ pc' = "done"
  /\ UNCHANGED <<tools_info, i, temp_dirs, tarballs, sha_files, packages,
                 no_submodule_integrities, with_outcome, without_outcome,
                 pending, integrity, rm_ran>>
  /\ UNCHANGED <<scan_vars, notes>>

\* ======================================================= Report Generator
\* generate_release_notes.py

\* Lines 37 and 40: {x['module_name']: x for x in list}; a later record of
\* the same module_name replaces an earlier one.
\* Lines 85 and 115: module_name in lookup
in_lookup(list, name) == \E j \in 1..Len(list) : list[j].module_name = name

lookup(list, name) ==
  list[SetMax({ j \in 1..Len(list) : list[j].module_name = name })]

\* Lines 55-56 and 63-64: a bullet of the "What's Included" lists
Bullet(tool) ==
  [module_name |-> tool.module_name, commit |-> tool.commit,
   commit_url |-> <<"https://github.com/", tool.owner, "/", tool.repo,
                    "/commit/", tool.commit>>]

with_block_own_name(tool, pkg, tag, repository) ==
  [module_name |-> tool.module_name,
   url |-> <<"https://github.com/", repository, "/releases/download/", tag, "/">>
             \o TarballName(tool.module_name, tag),
   strip_prefix |-> pkg.strip_prefix,
   integrity |-> pkg.integrity]

\* Lines 86-96
with_block(tool, pkg, tag, repository) ==
  [module_name |-> tool.module_name,
   url |-> <<"https://github.com/", repository, "/releases/download/", tag, "/">>
             \o pkg.tarball_name,
   strip_prefix |-> pkg.strip_prefix,
   integrity |-> pkg.integrity]

without_block_always_integrity(tool, integrities) ==
  [module_name |-> tool.module_name,
   url |-> <<"https://github.com/", tool.owner, "/", tool.repo, "/archive/",
             tool.commit, ".tar.gz">>,
   strip_prefix |-> <<tool.repo, "-", tool.commit>>,
   has_integrity |-> TRUE,
   integrity |-> IF in_lookup(integrities, tool.module_name)
                   THEN lookup(integrities, tool.module_name).integrity
                   ELSE NoIntegrity]

\* Lines 105-137: the block with the precomputed integrity, or the fallback
\* block without an integrity line
without_block(tool, integrities) ==
  [module_name |-> tool.module_name,
   url |-> <<"https://github.com/", tool.owner, "/", tool.repo, "/archive/",
             tool.commit, ".tar.gz">>,
   strip_prefix |-> <<tool.repo, "-", tool.commit>>,
   has_integrity |-> in_lookup(integrities, tool.module_name),
   integrity |-> IF in_lookup(integrities, tool.module_name)
                   THEN lookup(integrities, tool.module_name).integrity
                   ELSE NoIntegrity]

RECURSIVE with_blocks_from(_, _, _, _, _)
with_blocks_from(ws, n, packaged, tag, repository) ==
  IF n > Len(ws) THEN <<>>
  ELSE LET rest == with_blocks_from(ws, n + 1, packaged, tag, repository)
       IN IF in_lookup(packaged, ws[n].module_name)
            THEN <<with_block(ws[n], lookup(packaged, ws[n].module_name),
                              tag, repository)>> \o rest
            ELSE rest

\* Lines 20-177: the parts of the text that depend on the inputs
release_notes(info, packaged, integrities, tag, repository) ==
  [with_list |-> [n \in 1..Len(info.with_submodules) |-> Bullet(info.with_submodules[n])],
   without_list |->
     [n \in 1..Len(info.without_submodules) |-> Bullet(info.without_submodules[n])],
   with_blocks |-> with_blocks_from(info.with_submodules, 1, packaged, tag, repository),
   without_blocks |->
     [n \in 1..Len(info.without_submodules) |->
        without_block(info.without_submodules[n], integrities)]]

\* Lines 29-34: the integrities file is optional
LoadIntegrities(file) == IF file.exists THEN file.data ELSE <<>>

\* generate_release_notes.main, run on the output directory of the packager
GenerateReleaseNotes ==
  /\ pc = "done"
  /\ notes' = release_notes(tools_info, packages_json.data,
                            LoadIntegrities(integrities_json), TagName, Repository)
  /\ pc' = "reported"
  /\ UNCHANGED <<tools_info, i, temp_dirs, tarballs, sha_files, packages,
                 no_submodule_integrities, packages_json, integrities_json,
                 with_outcome, without_outcome, pending, integrity, rm_ran>>
  /\ UNCHANGED scan_vars

\* ---------------------------------------------------------- specifications
\* The scanner on a manifest
ScanSpecInit ==
  /\ ScanInit
  /\ tools_info = [with_submodules |-> <<>>, without_submodules |-> <<>>]
  /\ pc = "off"
  /\ PackFresh
  /\ packages_json = Absent
  /\ integrities_json = Absent
  /\ notes = NoNotes

ScanNext == ScanParse \/ ScanProbe \/ ScanPrint

SpecScan == ScanSpecInit /\ [][ScanNext]_vars

\* The packager on a classification, followed by the report generator
Init == PackInit

Next ==
  \/ PackageToolMkdir
  \/ EnterTry
  \/ GitClone
  \/ GitCheckout
  \/ GitSubmoduleUpdate
  \/ RenameCloneDir
  \/ CreateTarball
  \/ CalculateIntegrity
  \/ WriteIntegrityFile
  \/ Finally
  \/ Interrupt
  \/ WithLoopEnd
  \/ DownloadArchive
  \/ HashArchive
  \/ WriteManifests
  \/ GenerateReleaseNotes

Spec == Init /\ [][Next]_vars

\* The report generator on any packages.json and integrities file
PkgRecords ==
  { [module_name |-> m, tarball_name |-> TarballName(m, t), integrity |-> calculate_integrity(b),
     commit |-> "abc123", strip_prefix |-> TargetDirname(PackTool(m, TRUE))]
    : m \in ModuleNames, t \in {TagName, "v0"}, b \in TarBytes }

IntegrityRecords == { IntegrityRecord(PackTool(m, FALSE), calculate_integrity(3)) : m \in ModuleNames }

ReportInit ==
  /\ ScanIdle
  /\ tools_info \in [with_submodules : SeqsUpTo(WithTools, MaxWith),
                     without_submodules : SeqsUpTo(WithoutTools, MaxWithout)]
  /\ pc = "done"
  /\ PackFresh
  /\ \E ps \in SeqsUpTo(PkgRecords, MaxPkgs) : packages_json = Written(ps)
  /\ \/ integrities_json = Absent
     \/ \E rs \in SeqsUpTo(IntegrityRecords, MaxWithout) : integrities_json = Written(rs)
  /\ notes = NoNotes

ReportNext == GenerateReleaseNotes

SpecReport == ReportInit /\ [][ReportNext]_vars

\* ------------------------------------------------------------------ claims
RECURSIVE OkItems(_, _, _)
OkItems(list, outcomes, n) ==
  IF n > Len(list) \/ n > Len(outcomes) THEN <<>>
  ELSE IF outcomes[n] = "ok"
         THEN <<list[n]>> \o OkItems(list, outcomes, n + 1)
         ELSE OkItems(list, outcomes, n + 1)

BatchOver == pc \in {"done", "reported"}

C3Claim == pc = "killed" => rm_ran

\* C4: when the batch ends, the integrity of every entry of packages.json is
\* the digest of the bytes then stored in output_dir/<tarball_name>.
C4Claim ==
  pc = "done" =>
    \A n \in 1..Len(packages_json.data) :
      LET e == packages_json.data[n]
      IN /\ e.tarball_name \in DOMAIN tarballs
         /\ e.integrity = calculate_integrity(tarballs[e.tarball_name])

\* C5: no two DependencyRefs returned by parse_git_overrides share a
\* module_name.
C5Claim ==
  scan_pc \in {"probe", "done"} =>
    \A a, b \in 1..Len(tools) : a # b => tools[a].module_name # tools[b].module_name

RECURSIVE Classified(_, _, _, _)
Classified(ts, log, n, present) ==
  IF n > Len(log) THEN <<>>
  ELSE IF (log[n] = "exit0") = present
         THEN <<WithFlag(ts[n], present)>> \o Classified(ts, log, n + 1, present)
         ELSE Classified(ts, log, n + 1, present)

\* C6: every probe outcome is taken as present (curl exit 0) or as absent (any
\* other exit, a network error, a timeout); no outcome stops the scan; every
\* probed dependency is in exactly one of the two lists, in with_submodules
\* iff its probe found the marker file, each list in manifest order.
C6Theorem ==
  /\ scan_pc \in {"probe", "done"} =>
       /\ Len(probe_log) <= Len(tools)
       /\ tools_with_submodules = Classified(tools, probe_log, 1, TRUE)
       /\ tools_without_submodules = Classified(tools, probe_log, 1, FALSE)
  /\ scan_pc = "done" => Len(probe_log) = Len(tools)

C6Witness ==
  /\ scan_pc = "done"
  /\ probe_log = <<"timeout", "exit0">>
  /\ Len(tools_with_submodules) = 1
  /\ tools_with_submodules[1].module_name = tools[2].module_name
  /\ Len(tools_without_submodules) = 1

\* A declaration that carries the three attributes, in any order, with a
\* remote of the recognized shape.
Recognized(d) ==
  /\ Len(d) = 3
  /\ { d[j].key : j \in 1..3 } = {"module_name", "commit", "remote"}
  /\ \A j \in 1..3 : d[j].key = "remote" => repo_match(d[j].val).found

AttrOf(d, key) == d[CHOOSE j \in 1..Len(d) : d[j].key = key].val

RECURSIVE Expected(_, _)
Expected(c, n) ==
  IF n > Len(c) THEN <<>>
  ELSE IF Recognized(c[n])
         THEN <<[module_name |-> AttrOf(c[n], "module_name"),
                 commit |-> AttrOf(c[n], "commit"),
                 remote |-> AttrOf(c[n], "remote")]>> \o Expected(c, n + 1)
         ELSE Expected(c, n + 1)

\* C7: every declaration carrying module name, pinned revision and a
\* recognized remote yields exactly one DependencyRef with the three values
\* verbatim, whatever the order of the attributes.
C7Claim ==
  scan_pc \in {"probe", "done"} =>
    LET want == Expected(content, 1)
    IN /\ Len(tools) = Len(want)
       /\ \A n \in 1..Len(want) :
            /\ tools[n].module_name = want[n].module_name
            /\ tools[n].commit = want[n].commit
            /\ tools[n].remote = want[n].remote

HasEntry(list, name) == \E n \in 1..Len(list) : list[n].module_name = name

\* C8: the with-nested section has a block for a with_submodules dependency
\* iff packages.json has an entry of its module_name; the block takes its
\* download URL (repository, tag, tarball_name), strip_prefix and integrity
\* from such an entry; blocks follow the order of with_submodules.
C8Theorem ==
  pc = "reported" =>
    LET data == packages_json.data
        have == SelectSeq(With, LAMBDA t : HasEntry(data, t.module_name))
        blocks == notes.with_blocks
    IN /\ Len(blocks) = Len(have)
       /\ \A n \in 1..Len(blocks) :
            /\ blocks[n].module_name = have[n].module_name
            /\ \E k \in 1..Len(data) :
                 /\ data[k].module_name = blocks[n].module_name
                 /\ blocks[n].url =
                      <<"https://github.com/", Repository, "/releases/download/",
                        TagName, "/">> \o data[k].tarball_name
                 /\ blocks[n].strip_prefix = data[k].strip_prefix
                 /\ blocks[n].integrity = data[k].integrity

C8Witness ==
  /\ pc = "reported"
  /\ Len(With) = 2
  /\ Len(packages_json.data) = 2
  /\ Len(notes.with_blocks) = 1
  /\ notes.with_blocks[1].module_name = With[2].module_name

\* C9 as stated: a failed item has no record in its manifest and no
\* archive_override block in the report, on both paths.
C9Claim ==
  pc = "reported" =>
    /\ \A n \in 1..Len(With) :
         with_outcome[n] # "ok" =>
           /\ ~HasEntry(packages_json.data, With[n].module_name)
           /\ ~HasEntry(notes.with_blocks, With[n].module_name)
    /\ \A n \in 1..Len(Without) :
         without_outcome[n] # "ok" =>
           /\ ~HasEntry(integrities_json.data, Without[n].module_name)
           /\ ~HasEntry(notes.without_blocks, Without[n].module_name)

\* C9 amended: the manifests hold one record per succeeded item and none for
\* a failed one; the report has a with-nested block only for a module_name
\* that packages.json records; every without-nested dependency, failed or
\* not, has a block, and the block carries an integrity only if
\* no_submodule_integrities.json records its module_name.
C9Theorem ==
  pc = "reported" =>
    /\ Len(packages_json.data) = Len(OkItems(With, with_outcome, 1))
    /\ \A k \in 1..Len(packages_json.data) :
         \E n \in 1..Len(With) :
           with_outcome[n] = "ok" /\ With[n].module_name = packages_json.data[k].module_name
    /\ Len(integrities_json.data) = Len(OkItems(Without, without_outcome, 1))
    /\ \A k \in 1..Len(integrities_json.data) :
         \E n \in 1..Len(Without) :
           /\ without_outcome[n] = "ok"
           /\ Without[n].module_name = integrities_json.data[k].module_name
    /\ \A k \in 1..Len(notes.with_blocks) :
         HasEntry(packages_json.data, notes.with_blocks[k].module_name)
    /\ Len(notes.without_blocks) = Len(Without)
    /\ \A n \in 1..Len(Without) :
         /\ notes.without_blocks[n].module_name = Without[n].module_name
         /\ notes.without_blocks[n].has_integrity =
              HasEntry(integrities_json.data, Without[n].module_name)

C9Witness ==
  /\ pc = "reported"
  /\ with_outcome = <<"ok", "raised">>
  /\ With[1].module_name # With[2].module_name
  /\ without_outcome = <<"raised">>
  /\ Len(notes.with_blocks) = 1
  /\ Len(notes.without_blocks) = 1
  /\ ~notes.without_blocks[1].has_integrity

\* C10: after the batch every tarball in the output directory has its .sha256
\* companion and an entry in packages.json naming it (a call that fails after
\* create_tarball leaves no artifact behind).
C10Claim ==
  pc = "done" =>
    \A t \in DOMAIN tarballs :
      /\ IntegrityFile(t) \in DOMAIN sha_files
      /\ \E n \in 1..Len(packages_json.data) : packages_json.data[n].tarball_name = t

====
